---- MODULE Spec2Model ----
(***************************************************************************)
(* hookfs: the interception layer between the FUSE path filesystem and the *)
(* loopback filesystem.  HookFs (fs.go) hosts the path operations and the  *)
(* mount lifecycle, hookFile (file.go) the operations on an open file.     *)
(* Every operation is the same handler: assert the hook's capability, call *)
(* the Pre hook, call the lower filesystem, call the Post hook, return.    *)
(* A request is one goroutine running one handler; its steps are the       *)
(* points where it calls out (hook, lower filesystem) and may be overtaken *)
(* by another goroutine.                                                   *)
(***************************************************************************)
EXTENDS Integers, Sequences, FiniteSets, TLC

(* ------------------------------ bounds --------------------------------- *)
\* goroutines serving requests at the same time
MaxReq == 2
\* hookFile objects alive at the same time
MaxHandles == 1
\* longest byte region a read or a write carries
MaxBuf == 1
\* distinct HookContext values a Pre hook hands out
MaxCtx == 2

(* ------------------------------ values --------------------------------- *)
Req == 1..MaxReq
Handle == 1..MaxHandles
\* the transport of the sequential specification serves one request at a time
SeqReq == {r \in Req : r <= 1}
Paths == {"/x", "/y"}
Byte == {"A", "B"}
Bufs == UNION {[1..n -> Byte] : n \in 0..MaxBuf}

\* a HookContext: 0 is the nil interface, the zero value of prehookCtx
NilCtx == 0
Ctxs == 1..MaxCtx

\* error values a hook returns: nil or a syscall.Errno
HookErrs == {"nil", "errno:EIO"}
\* status codes of the lower filesystem
LowerCodes == {"OK", "ENOENT"}

\* fuse.ToStatus: nil is OK, an Errno is its own code, anything else ENOSYS
ToStatus(err) ==
  CASE err = "nil" -> "OK"
    [] err = "errno:EIO" -> "EIO"
    [] OTHER -> "ENOSYS"

(* ---------------------------- operations ------------------------------- *)
FsOps ==
  {"fs.GetAttr", "fs.Chmod", "fs.Chown", "fs.Utimens", "fs.Truncate",
   "fs.Access", "fs.Link", "fs.Mkdir", "fs.Mknod", "fs.Rename", "fs.Rmdir",
   "fs.Unlink", "fs.GetXAttr", "fs.ListXAttr", "fs.RemoveXAttr",
   "fs.SetXAttr", "fs.Open", "fs.Create", "fs.OpenDir", "fs.Symlink",
   "fs.Readlink", "fs.StatFs"}

FileOps ==
  {"f.Read", "f.Write", "f.Flush", "f.Release", "f.Fsync", "f.Truncate",
   "f.GetAttr", "f.Chown", "f.Chmod", "f.Utimens", "f.Allocate", "f.GetLk",
   "f.SetLk", "f.SetLkw"}

Ops == FsOps \cup FileOps

\* the interface each handler asserts on its hook reference
Asserts ==
  {<<"fs.GetAttr", "HookOnGetAttr">>, <<"fs.Chmod", "HookOnChmod">>,
   <<"fs.Chown", "HookOnChown">>, <<"fs.Utimens", "HookOnUtimens">>,
   <<"fs.Truncate", "HookOnTruncate">>, <<"fs.Access", "HookOnAccess">>,
   <<"fs.Link", "HookOnLink">>, <<"fs.Mkdir", "HookOnMkdir">>,
   <<"fs.Mknod", "HookOnMknod">>, <<"fs.Rename", "HookOnRename">>,
   <<"fs.Rmdir", "HookOnRmdir">>, <<"fs.Unlink", "HookOnUnlink">>,
   <<"fs.GetXAttr", "HookOnGetXAttr">>, <<"fs.ListXAttr", "HookOnListXAttr">>,
   <<"fs.RemoveXAttr", "HookOnRemoveXAttr">>,
   <<"fs.SetXAttr", "HookOnSetXAttr">>, <<"fs.Open", "HookOnOpen">>,
   <<"fs.Create", "HookOnCreate">>, <<"fs.OpenDir", "HookOnOpenDir">>,
   <<"fs.Symlink", "HookOnSymlink">>, <<"fs.Readlink", "HookOnReadlink">>,
   <<"fs.StatFs", "HookOnStatFs">>,
   <<"f.Read", "HookOnRead">>, <<"f.Write", "HookOnWrite">>,
   <<"f.Flush", "HookOnFlush">>, <<"f.Release", "HookOnRelease">>,
   <<"f.Fsync", "HookOnFsync">>, <<"f.Truncate", "HookOnTruncate">>,
   <<"f.GetAttr", "HookOnGetAttr">>, <<"f.Chown", "HookOnChown">>,
   <<"f.Chmod", "HookOnChmod">>, <<"f.Utimens", "HookOnUtimens">>,
   <<"f.Allocate", "HookOnAllocate">>, <<"f.GetLk", "HookOnGetLk">>,
   <<"f.SetLk", "HookOnSetLk">>, <<"f.SetLkw", "HookOnSetLkw">>}

\* the Pre/Post interfaces of hook.go
Pairs == {a[2] : a \in Asserts}

PairOf == [op \in Ops |-> CHOOSE p \in Pairs : <<op, p>> \in Asserts]

\* handlers that log.Fatal when the Pre hook short-circuits without an error
FatalOps == {"fs.Mkdir", "fs.Rmdir", "fs.Open", "fs.OpenDir"}

\* handlers that return a result of the lower filesystem beside the status
ResultOps ==
  {"fs.GetAttr", "fs.GetXAttr", "fs.ListXAttr", "fs.Readlink", "fs.OpenDir"}

\* handlers that wrap the lower file in a new hookFile
WrapOps == {"fs.Open", "fs.Create"}

\* handlers whose Post hook takes no realRetCode
NoCodePostOps ==
  {"fs.StatFs", "f.Release", "f.Truncate", "f.GetAttr", "f.Chown", "f.Chmod",
   "f.Utimens", "f.Allocate", "f.GetLk", "f.SetLk", "f.SetLkw"}

\* handlers whose Pre and Post hooks return no error, and that return no status
NoStatusOps == {"f.Release", "fs.StatFs"}

(* ------------------------------- hooks --------------------------------- *)
\* The hook given to NewHookFs is a value of some Go type; what the engine
\* can see of it is which interfaces that type satisfies.  pairs are the
\* HookOnX interfaces the type has both methods of, preOnly those it has
\* only the PreX method of.
SomePairs ==
  {"HookOnOpen", "HookOnRead", "HookOnMkdir", "HookOnChmod", "HookOnStatFs",
   "HookOnRelease", "HookOnGetAttr"}

PreOnlyPairs == {"HookOnWrite", "HookOnFlush", "HookOnRmdir"}

HookKinds ==
  << [pairs |-> Pairs, preOnly |-> {}, init |-> TRUE],
     [pairs |-> SomePairs, preOnly |-> PreOnlyPairs, init |-> FALSE],
     [pairs |-> Pairs \ SomePairs, preOnly |-> {}, init |-> TRUE],
     [pairs |-> {}, preOnly |-> Pairs, init |-> TRUE] >>

\* a Hook reference: 0 is the nil interface, k > 0 the hook of kind k
NoHook == 0
HookRefs == 0..Len(HookKinds)

\* (variant: the handler asks for the PreX method alone)
HookEnabledPreOnly(hook, op) ==
  /\ hook # NoHook
  /\ PairOf[op] \in HookKinds[hook].pairs \cup HookKinds[hook].preOnly

\* the type assertion `hook, hookEnabled := h.hook.(HookOnX)`
HookEnabled(hook, op) ==
  /\ hook # NoHook
  /\ PairOf[op] \in HookKinds[hook].pairs

\* the type assertion `hook, hookEnabled := h.hook.(HookWithInit)`
InitEnabled(hook) ==
  /\ hook # NoHook
  /\ HookKinds[hook].init

(* ------------------------------- state --------------------------------- *)
VARIABLES
  fsHook,    \* HookFs.hook
  handles,   \* the hookFile objects: file, name, hook
  req,       \* per goroutine: the handler it runs and the handler's locals
  calls,     \* per goroutine: the calls its handler has made so far
  mount,     \* where OnMount / OnUnmount stand, and the calls they made
  proc       \* the process: running, or ended by log.Fatal or by a panic

vars == <<fsHook, handles, req, calls, mount, proc>>

NoFile == <<>>
\* a hookFile; state and late are the transport's and the observer's notes:
\* whether the transport holds it, and whether the Open/Create that made it
\* started after a failed Init
NoHandle ==
  [file |-> NoFile, name |-> "", hook |-> NoHook, state |-> "free",
   late |-> FALSE]

NoArgs == [name |-> "", size |-> 0, data |-> <<>>]
\* what a handler returns: a result (attributes, names, bytes), a byte count,
\* a hookFile (0 is nil) and a status ("none" where the signature has none)
NoRet == [res |-> <<>>, bytesOK |-> TRUE, n |-> 0, file |-> 0, code |-> "none"]
\* what the lower filesystem returns
NoLower ==
  [res |-> <<>>, bytesOK |-> TRUE, n |-> 0, file |-> NoFile, code |-> "none"]

IdleReq ==
  [pc |-> "idle", op |-> "none", fh |-> 0, args |-> NoArgs, late |-> FALSE,
   hook |-> NoHook, hookEnabled |-> FALSE,
   prehooked |-> FALSE, prehookCtx |-> NilCtx, prehookErr |-> "nil",
   prehookBuf |-> <<>>,
   lower |-> NoLower, hFile |-> 0,
   posthooked |-> FALSE, posthookErr |-> "nil", posthookBuf |-> <<>>,
   ret |-> NoRet]

NoCalls ==
  [nPre |-> 0, preArgs |-> NoArgs,
   nLower |-> 0, lowerArgs |-> NoArgs, lowerOn |-> <<>>,
   nPost |-> 0, postCtx |-> NilCtx, postCode |-> "none", postBuf |-> <<>>]

NewMount == [pc |-> "new", nLowerMount |-> 0, nInit |-> 0, initErr |-> "nil",
             nLowerUnmount |-> 0]

\* NewHookFs: the hook reference is whatever the application passed
Init ==
  /\ fsHook \in HookRefs
  /\ handles = [k \in Handle |-> NoHandle]
  /\ req = [r \in Req |-> IdleReq]
  /\ calls = [r \in Req |-> NoCalls]
  /\ mount = NewMount
  /\ proc = "running"

(* ------------------------- the lower filesystem ------------------------ *)
\* What a call of the lower filesystem (h.fs.X, h.file.X) may return for the
\* request with locals q.  A result names the operation and path it is the
\* result of; a failed call has no result.
LowerOutcomes(q) ==
  LET op == q.op
      base == NoLower
  IN CASE op \in WrapOps ->
            { [base EXCEPT !.file = <<"file", q.args.name>>, !.code = "OK"],
              [base EXCEPT !.code = "ENOENT"] }
       [] op \in ResultOps ->
            { [base EXCEPT !.res = <<op, q.args.name>>, !.code = "OK"],
              [base EXCEPT !.code = "ENOENT"] }
       [] op = "fs.StatFs" ->
            { [base EXCEPT !.res = <<op, q.args.name>>], base }
       [] op = "f.Release" -> { base }
       [] op = "f.Read" ->
            { [base EXCEPT !.res = b, !.bytesOK = ok, !.code = "OK"] :
                <<b, ok>> \in {d \in Bufs : Len(d) <= q.args.size} \X BOOLEAN }
            \cup { [base EXCEPT !.bytesOK = ok, !.code = "ENOENT"] :
                     ok \in BOOLEAN }
       [] op = "f.Write" ->
            { [base EXCEPT !.n = n, !.code = "OK"] : n \in 0..Len(q.args.data) }
            \cup { [base EXCEPT !.code = "ENOENT"] }
       [] OTHER -> { [base EXCEPT !.code = c] : c \in LowerCodes }

(* ------------------------------ the hooks ------------------------------ *)
\* what a Pre hook may return beside (hooked, ctx)
PreErrs(op) == IF op = "f.Release" THEN {"nil"} ELSE HookErrs
PreBufs(op) == IF op = "f.Read" THEN Bufs ELSE {<<>>}
\* what a Post hook may return beside hooked
PostErrs(op) == IF op = "f.Release" THEN {"nil"} ELSE HookErrs
PostBufs(op) == IF op = "f.Read" THEN Bufs ELSE {<<>>}

(* ----------------------------- the handler ----------------------------- *)
\* (variant: the Pre hook short-circuits only when it returns an error)
ShortCircuitsOnError(q) ==
  q.prehooked /\ q.op # "f.Release" /\ q.prehookErr # "nil"

\* `if prehooked { ... return }`: Release only logs
ShortCircuits(q) == q.prehooked /\ q.op # "f.Release"

\* (variant: no handler checks for a short-circuit without an error)
PreFatalNever(q) == FALSE

\* (variant: every handler treats a short-circuit without an error as a
\* defect, not only Mkdir, Rmdir, Open and OpenDir)
PreFatalAll(q) == q.prehookErr = "nil"

\* `if prehookErr == nil { log...Fatal(...) }`
PreFatal(q) == q.op \in FatalOps /\ q.prehookErr = "nil"

\* (variant: Read returns nil on prehooked like the other handlers)
PreRetNoBuf(q) ==
  [NoRet EXCEPT
     !.code = IF q.op \in NoStatusOps THEN "none" ELSE ToStatus(q.prehookErr)]

\* (variant: Write reports the whole buffer written on prehooked)
PreRetWriteLen(q) ==
  [NoRet EXCEPT
     !.res = IF q.op = "f.Read" THEN q.prehookBuf ELSE <<>>,
     !.n = Len(q.args.data),
     !.code = IF q.op \in NoStatusOps THEN "none" ELSE ToStatus(q.prehookErr)]

\* (variant: the prehooked return reports success whatever the hook's error)
PreRetOK(q) ==
  [NoRet EXCEPT
     !.res = IF q.op = "f.Read" THEN q.prehookBuf ELSE <<>>,
     !.code = IF q.op \in NoStatusOps THEN "none" ELSE "OK"]

\* the return under `if prehooked`
PreRet(q) ==
  [NoRet EXCEPT
     !.res = IF q.op = "f.Read" THEN q.prehookBuf ELSE <<>>,
     !.code = IF q.op \in NoStatusOps THEN "none" ELSE ToStatus(q.prehookErr)]

\* the last return of the handler: the lower filesystem's own answer
LowerRet(q) ==
  [res |-> q.lower.res, bytesOK |-> q.lower.bytesOK, n |-> q.lower.n,
   file |-> q.hFile, code |-> q.lower.code]

\* (variant: StatFs returns on posthooked as the handlers with a status do)
ReplacesStatFs(q) == q.posthooked /\ q.op # "f.Release"

\* (variant: a handler looks at posthooked only when the lower call
\* succeeded, and returns the lower failure otherwise)
ReplacesOnSuccess(q) ==
  q.posthooked /\ q.op \notin NoStatusOps /\ q.lower.code = "OK"

\* `if posthooked { ... return }`: Release only logs, StatFs returns out
Replaces(q) == q.posthooked /\ q.op \notin NoStatusOps

\* (variant: the posthooked return keeps the lower status)
PostRetLowerCode(q) ==
  [NoRet EXCEPT
     !.res = IF q.op = "f.Read" THEN q.posthookBuf
             ELSE IF q.op \in ResultOps THEN q.lower.res ELSE <<>>,
     !.file = q.hFile,
     !.code = q.lower.code]

\* (variant: the posthooked return of Open/Create gives no file, like the
\* prehooked one)
PostRetNoFile(q) ==
  [NoRet EXCEPT
     !.res = IF q.op = "f.Read" THEN q.posthookBuf
             ELSE IF q.op \in ResultOps THEN q.lower.res ELSE <<>>,
     !.code = ToStatus(q.posthookErr)]

\* (variant: on posthooked with an error the handler returns the error
\* alone, without the result of the lower call)
PostRetErrorAlone(q) ==
  [NoRet EXCEPT
     !.res = IF q.op = "f.Read" THEN q.posthookBuf
             ELSE IF q.op \in ResultOps /\ q.posthookErr = "nil"
                  THEN q.lower.res ELSE <<>>,
     !.file = IF q.posthookErr = "nil" THEN q.hFile ELSE 0,
     !.code = ToStatus(q.posthookErr)]

\* (variant: on posthooked Write returns the count of the lower Write
\* with the status of PostWrite)
PostRetKeepsCount(q) ==
  [NoRet EXCEPT
     !.res = IF q.op = "f.Read" THEN q.posthookBuf
             ELSE IF q.op \in ResultOps THEN q.lower.res ELSE <<>>,
     !.n = q.lower.n,
     !.file = q.hFile,
     !.code = ToStatus(q.posthookErr)]

\* the return under `if posthooked`
PostRet(q) ==
  [NoRet EXCEPT
     !.res = IF q.op = "f.Read" THEN q.posthookBuf
             ELSE IF q.op \in ResultOps THEN q.lower.res ELSE <<>>,
     !.file = q.hFile,
     !.code = ToStatus(q.posthookErr)]

\* (variant: the context is kept in one place shared by the requests, so
\* the Post call of one request may get the context of another)
PostCtxArgShared(q) ==
  LET past == {r \in Req : req[r].prehookCtx # NilCtx}
  IN IF past = {} THEN NilCtx
     ELSE req[CHOOSE r \in past : \A r2 \in past : r <= r2].prehookCtx

\* the arguments of the Post call
PostCtxArg(q) == q.prehookCtx
PostCodeArg(q) == IF q.op \in NoCodePostOps THEN "none" ELSE q.lower.code

\* (variant: PostRead is handed an empty buffer, not the bytes read)
PostBufArgEmpty(q) == <<>>

PostBufArg(q) == IF q.op = "f.Read" THEN q.lower.res ELSE <<>>

\* (variant: the hookFile is made without the path of the request)
NewHookFileNoName(q) ==
  [file |-> q.lower.file, name |-> "", hook |-> fsHook,
   state |-> "new", late |-> q.late]

\* newHookFile(lowerFile, name, h.hook)
NewHookFile(q) ==
  [file |-> q.lower.file, name |-> q.args.name, hook |-> fsHook,
   state |-> "new", late |-> q.late]

\* (variant: Read goes on to PostRead with whatever bytes it got)
ReadPanicsNever(q) == FALSE

\* `lowerRR.Bytes(...)` failed: log...Panic; a failed lower read may also
\* return a nil ReadResult, and `lowerRR.Size()` on it panics
ReadPanics(q) == q.op = "f.Read" /\ ~q.lower.bytesOK

(* ------------------------------- steps --------------------------------- *)
\* (variant: log.Fatal only writes the log line, the process goes on)
RunningPastFatal == proc \in {"running", "fatal"}

Running == proc = "running"

FreeHandles == {k \in Handle : handles[k].state = "free"}

\* Open/Create requests that have not wrapped their file yet
Wrapping == {r \in Req : req[r].op \in WrapOps /\ req[r].pc \in {"pre", "lower"}}

\* The handler calls the lower filesystem.  A hookFile made around a nil
\* file (Open/Create wrap whatever the lower call returned) has no lower
\* file to call: the method call on the nil interface panics.
CallLower(r, q, c) ==
  IF q.op \in FileOps /\ handles[q.fh].file = NoFile
  THEN /\ proc' = "panic"
       /\ req' = [req EXCEPT ![r] = [q EXCEPT !.pc = "dead"]]
       /\ calls' = [calls EXCEPT ![r] = c]
  ELSE /\ proc' = proc
       /\ req' = [req EXCEPT ![r] = [q EXCEPT !.pc = "lower"]]
       /\ calls' = [calls EXCEPT ![r] =
            [c EXCEPT !.nLower = @ + 1,
                      !.lowerArgs = q.args,
                      !.lowerOn = IF q.op \in FileOps
                                  THEN handles[q.fh].file ELSE <<"fs">>]]

\* The first lines of a handler: the type assertion on the hook reference,
\* then the Pre call if the hook has the pair, the lower call otherwise.
Begin(r, op, fh, args, hook) ==
  LET q == [IdleReq EXCEPT !.op = op, !.fh = fh, !.args = args,
                           !.hook = hook,
                           !.hookEnabled = HookEnabled(hook, op),
                           !.late = (mount.initErr # "nil")]
  IN IF q.hookEnabled
     THEN /\ req' = [req EXCEPT ![r] = [q EXCEPT !.pc = "pre"]]
          /\ calls' = [calls EXCEPT ![r] =
               [NoCalls EXCEPT !.nPre = 1, !.preArgs = args]]
          /\ proc' = proc
     ELSE CallLower(r, q, NoCalls)

\* A path operation of HookFs starts: it reads h.hook.
EnterFs(r, op, name) ==
  /\ Running
  /\ mount.pc # "unmounted"
  /\ req[r].pc = "idle"
  /\ op \in WrapOps => Cardinality(FreeHandles) > Cardinality(Wrapping)
  /\ Begin(r, op, 0, [NoArgs EXCEPT !.name = name], fsHook)
  /\ UNCHANGED <<fsHook, handles, mount>>

\* the arguments a file operation takes beside the path its hookFile holds
FileArgs(op, name) ==
  CASE op = "f.Read" ->
         {[NoArgs EXCEPT !.name = name, !.size = n] : n \in 0..MaxBuf}
    [] op = "f.Write" ->
         {[NoArgs EXCEPT !.name = name, !.data = d] : d \in Bufs}
    [] OTHER -> {[NoArgs EXCEPT !.name = name]}

\* (variant: a hookFile looks its hook up in the HookFs instead of keeping
\* the one it was made with)
FileHookLive(k) == fsHook

\* `h.hook` in a method of hookFile k
FileHook(k) == handles[k].hook

\* (variant: a hookFile has a lock its methods hold around their hook
\* calls, so an operation starts only when no other request on the
\* hookFile is inside a hook)
EnterFileSerial(r, op, k, args) ==
  /\ Running
  /\ req[r].pc = "idle"
  /\ handles[k].state = "open"
  /\ args \in FileArgs(op, handles[k].name)
  /\ \A r2 \in Req : req[r2].fh = k => req[r2].op # "f.Release"
  /\ op = "f.Release" => \A r2 \in Req : req[r2].fh # k
  /\ \A r2 \in Req : req[r2].fh = k => req[r2].pc \notin {"pre", "post"}
  /\ Begin(r, op, k, args, FileHook(k))
  /\ UNCHANGED <<fsHook, handles, mount>>

\* An operation of hookFile k starts: it reads h.hook and h.name of the
\* hookFile.  The kernel releases a file once, after its last operation.
EnterFile(r, op, k, args) ==
  /\ Running
  /\ req[r].pc = "idle"
  /\ handles[k].state = "open"
  /\ args \in FileArgs(op, handles[k].name)
  /\ \A r2 \in Req : req[r2].fh = k => req[r2].op # "f.Release"
  /\ op = "f.Release" => \A r2 \in Req : req[r2].fh # k
  /\ Begin(r, op, k, args, FileHook(k))
  /\ UNCHANGED <<fsHook, handles, mount>>

\* The handler goes on past the Pre hook: prehookErr and prehookBuf are
\* dead, no later line reads them.
Continue(q) == [q EXCEPT !.prehookErr = "nil", !.prehookBuf = <<>>]

\* The Pre hook returns.
PreReturn(r) ==
  /\ Running
  /\ req[r].pc = "pre"
  /\ \E hooked \in BOOLEAN, ctx \in Ctxs,
        err \in PreErrs(req[r].op), buf \in PreBufs(req[r].op) :
       LET q == [req[r] EXCEPT !.prehooked = hooked, !.prehookCtx = ctx,
                               !.prehookErr = err, !.prehookBuf = buf]
       IN IF ShortCircuits(q)
          THEN IF PreFatal(q)
               THEN /\ proc' = "fatal"
                    /\ req' = [req EXCEPT ![r] = [q EXCEPT !.pc = "dead"]]
                    /\ calls' = calls
               ELSE /\ proc' = proc
                    /\ req' = [req EXCEPT ![r] =
                         [q EXCEPT !.pc = "done", !.ret = PreRet(q)]]
                    /\ calls' = calls
          ELSE CallLower(r, Continue(q), calls[r])
  /\ UNCHANGED <<fsHook, handles, mount>>

\* The lower filesystem returns.  Open and Create wrap the file in a new
\* hookFile, reading h.hook again.  Then the Post call if the hook has the
\* pair, the return otherwise.
LowerReturn(r) ==
  /\ Running
  /\ req[r].pc = "lower"
  /\ \E out \in LowerOutcomes(req[r]) :
       LET q1 == [req[r] EXCEPT !.lower = out]
           k == CHOOSE k \in Handle :
                  /\ handles[k].state = "free"
                  /\ \A j \in FreeHandles : k <= j
           q == IF q1.op \in WrapOps THEN [q1 EXCEPT !.hFile = k] ELSE q1
       IN /\ handles' = IF q.op \in WrapOps
                        THEN [handles EXCEPT ![k] = NewHookFile(q)]
                        ELSE handles
          /\ IF q.hookEnabled
             THEN IF ReadPanics(q)
                  THEN /\ proc' = "panic"
                       /\ req' = [req EXCEPT ![r] = [q EXCEPT !.pc = "dead"]]
                       /\ calls' = calls
                  ELSE /\ proc' = proc
                       /\ req' = [req EXCEPT ![r] = [q EXCEPT !.pc = "post"]]
                       /\ calls' = [calls EXCEPT ![r] =
                            [@ EXCEPT !.nPost = @ + 1,
                                      !.postCtx = PostCtxArg(q),
                                      !.postCode = PostCodeArg(q),
                                      !.postBuf = PostBufArg(q)]]
             ELSE /\ proc' = proc
                  /\ req' = [req EXCEPT ![r] =
                       [q EXCEPT !.pc = "done", !.ret = LowerRet(q)]]
                  /\ calls' = calls
  /\ UNCHANGED <<fsHook, mount>>

\* (variant: the handlers share a lock that a handler holds from its entry
\* to the return of its Pre hook and takes again for its return, so a Post
\* hook that returned waits while another request is inside a Pre hook)
PostReturnLocked(r) ==
  /\ Running
  /\ req[r].pc = "post"
  /\ \A r2 \in Req \ {r} : req[r2].pc # "pre"
  /\ \E hooked \in BOOLEAN,
        err \in PostErrs(req[r].op), buf \in PostBufs(req[r].op) :
       LET q == [req[r] EXCEPT !.posthooked = hooked, !.posthookErr = err,
                               !.posthookBuf = buf]
       IN req' = [req EXCEPT ![r] =
            [q EXCEPT !.pc = "done",
                      !.ret = IF Replaces(q) THEN PostRet(q) ELSE LowerRet(q)]]
  /\ UNCHANGED <<fsHook, handles, calls, mount, proc>>

\* The Post hook returns, and the handler with it.
PostReturn(r) ==
  /\ Running
  /\ req[r].pc = "post"
  /\ \E hooked \in BOOLEAN,
        err \in PostErrs(req[r].op), buf \in PostBufs(req[r].op) :
       LET q == [req[r] EXCEPT !.posthooked = hooked, !.posthookErr = err,
                               !.posthookBuf = buf]
       IN req' = [req EXCEPT ![r] =
            [q EXCEPT !.pc = "done",
                      !.ret = IF Replaces(q) THEN PostRet(q) ELSE LowerRet(q)]]
  /\ UNCHANGED <<fsHook, handles, calls, mount, proc>>

\* The transport takes the reply.  It keeps the hookFile of an Open or
\* Create that returned OK and drops it otherwise; it drops a released one.
Finish(r) ==
  /\ Running
  /\ req[r].pc = "done"
  /\ LET q == req[r]
     IN handles' =
          IF q.op \in WrapOps /\ q.ret.file # 0
          THEN IF q.ret.code = "OK"
               THEN [handles EXCEPT ![q.ret.file].state = "open"]
               ELSE [handles EXCEPT ![q.ret.file] = NoHandle]
          ELSE IF q.op = "f.Release"
               THEN [handles EXCEPT ![q.fh] = NoHandle]
               ELSE handles
  /\ req' = [req EXCEPT ![r] = IdleReq]
  /\ calls' = [calls EXCEPT ![r] = NoCalls]
  /\ UNCHANGED <<fsHook, mount, proc>>

(* ------------------------------ lifecycle ------------------------------ *)
\* OnMount starts: h.fs.OnMount(nodeFs)
OnMountBegin ==
  /\ Running
  /\ mount.pc = "new"
  /\ mount' = [mount EXCEPT !.pc = "lower", !.nLowerMount = @ + 1]
  /\ UNCHANGED <<fsHook, handles, req, calls, proc>>

\* (variant: OnMount mounts the lower filesystem and never calls Init)
OnMountAssertNoInit ==
  /\ Running
  /\ mount.pc = "lower"
  /\ mount' = [mount EXCEPT !.pc = "mounted"]
  /\ UNCHANGED <<fsHook, handles, req, calls, proc>>

\* h.fs.OnMount returned: the type assertion on h.hook, then Init if the
\* hook has it
OnMountAssert ==
  /\ Running
  /\ mount.pc = "lower"
  /\ mount' = IF InitEnabled(fsHook)
              THEN [mount EXCEPT !.pc = "init", !.nInit = @ + 1]
              ELSE [mount EXCEPT !.pc = "mounted"]
  /\ UNCHANGED <<fsHook, handles, req, calls, proc>>

\* (variant: OnMount drops the hook once Init has run, failed or not)
InitReturnDropsHook(err) ==
  /\ Running
  /\ mount.pc = "init"
  /\ mount' = [mount EXCEPT !.pc = "mounted", !.initErr = err]
  /\ fsHook' = NoHook
  /\ UNCHANGED <<handles, req, calls, proc>>

\* (variant: when Init fails OnMount unmounts the lower filesystem again)
InitReturnUndoesMount(err) ==
  /\ Running
  /\ mount.pc = "init"
  /\ mount' = IF err # "nil"
              THEN [mount EXCEPT !.pc = "unmounted", !.initErr = err,
                                 !.nLowerUnmount = @ + 1]
              ELSE [mount EXCEPT !.pc = "mounted", !.initErr = err]
  /\ fsHook' = IF err # "nil" THEN NoHook ELSE fsHook
  /\ UNCHANGED <<handles, req, calls, proc>>

\* Init returned: `if err != nil { h.hook = nil }`
InitReturn(err) ==
  /\ Running
  /\ mount.pc = "init"
  /\ mount' = [mount EXCEPT !.pc = "mounted", !.initErr = err]
  /\ fsHook' = IF err # "nil" THEN NoHook ELSE fsHook
  /\ UNCHANGED <<handles, req, calls, proc>>

\* OnUnmount: h.fs.OnUnmount()
OnUnmount ==
  /\ Running
  /\ mount.pc = "mounted"
  /\ \A r \in Req : req[r].pc = "idle"
  /\ mount' = [mount EXCEPT !.pc = "unmounted", !.nLowerUnmount = @ + 1]
  /\ UNCHANGED <<fsHook, handles, req, calls, proc>>

(* --------------------------- specifications ---------------------------- *)
\* one request at a time, every operation, beside the mount lifecycle
Next ==
  \/ \E r \in SeqReq, op \in FsOps, name \in Paths : EnterFs(r, op, name)
  \/ \E r \in SeqReq, op \in FileOps, k \in Handle :
       \E args \in FileArgs(op, handles[k].name) : EnterFile(r, op, k, args)
  \/ \E r \in Req : PreReturn(r)
  \/ \E r \in Req : LowerReturn(r)
  \/ \E r \in Req : PostReturn(r)
  \/ \E r \in Req : Finish(r)
  \/ OnMountBegin
  \/ OnMountAssert
  \/ \E err \in HookErrs : InitReturn(err)
  \/ OnUnmount

Spec == Init /\ [][Next]_vars

\* the operations the transport of the concurrent specification requests
ConcFsOps == {"fs.Chmod", "fs.Mkdir", "fs.Open"}
ConcFileOps == {"f.Flush", "f.Release"}

\* MaxReq requests at a time, beside the mount lifecycle
NextConc ==
  \/ \E r \in Req, op \in ConcFsOps, name \in Paths : EnterFs(r, op, name)
  \/ \E r \in Req, op \in ConcFileOps, k \in Handle :
       \E args \in FileArgs(op, handles[k].name) : EnterFile(r, op, k, args)
  \/ \E r \in Req : PreReturn(r)
  \/ \E r \in Req : LowerReturn(r)
  \/ \E r \in Req : PostReturn(r)
  \/ \E r \in Req : Finish(r)
  \/ OnMountBegin
  \/ OnMountAssert
  \/ \E err \in HookErrs : InitReturn(err)
  \/ OnUnmount

\* the application passed a hook that has every pair and Init
InitConc ==
  /\ Init
  /\ fsHook # NoHook
  /\ HookKinds[fsHook].pairs = Pairs
  /\ HookKinds[fsHook].init

SpecConc == InitConc /\ [][NextConc]_vars

\* The server made by newHookServer calls OnMount while it mounts, and
\* serves requests from then until the unmount.
Serving == mount.pc = "mounted"

\* one request at a time, served between OnMount and OnUnmount
NextServe ==
  \/ Serving /\ \E r \in SeqReq, op \in FsOps, name \in Paths :
                  EnterFs(r, op, name)
  \/ Serving /\ \E r \in SeqReq, op \in FileOps, k \in Handle :
                  \E args \in FileArgs(op, handles[k].name) :
                    EnterFile(r, op, k, args)
  \/ \E r \in Req : PreReturn(r)
  \/ \E r \in Req : LowerReturn(r)
  \/ \E r \in Req : PostReturn(r)
  \/ \E r \in Req : Finish(r)
  \/ OnMountBegin
  \/ OnMountAssert
  \/ \E err \in HookErrs : InitReturn(err)
  \/ OnUnmount

SpecServe == Init /\ [][NextServe]_vars

(* ------------------------------ properties ----------------------------- *)
\* the hook reference request r read does not have the pair of r's operation
LacksPair(r) ==
  \/ req[r].hook = NoHook
  \/ PairOf[req[r].op] \notin HookKinds[req[r].hook].pairs

Started(r) == req[r].pc # "idle"
Returned(r) == req[r].pc = "done"

\* what a handler returned is what the lower filesystem returned: the same
\* result and status, for Open/Create a hookFile where it returned a file
\* and nil where it returned nil
SameAsLower(r) ==
  /\ req[r].ret.res = req[r].lower.res
  /\ req[r].ret.bytesOK = req[r].lower.bytesOK
  /\ req[r].ret.n = req[r].lower.n
  /\ req[r].ret.code = req[r].lower.code
  /\ IF req[r].lower.file = NoFile
     THEN req[r].ret.file = 0
     ELSE /\ req[r].ret.file \in Handle
          /\ handles[req[r].ret.file].file = req[r].lower.file

\* C1 (passthrough invariance): a request whose hook reference is nil or
\* lacks the operation's pair calls no hook method and calls the lower
\* filesystem exactly once, with its own arguments; what it returns is
\* exactly what the lower call returned.
PassthroughInvariance ==
  \A r \in Req :
    (Started(r) /\ LacksPair(r)) =>
      /\ calls[r].nPre = 0
      /\ calls[r].nPost = 0
      /\ req[r].pc \in {"lower", "done"}
      /\ calls[r].nLower = 1
      /\ calls[r].lowerArgs = req[r].args
      /\ Returned(r) => SameAsLower(r)

\* C1, the part that holds: as above, but Open/Create return a hookFile
\* also around the nil file of a failed lower call, and a request on such a
\* hookFile ends in the panic of a method call on nil.
PassthroughUpToNilFile ==
  \A r \in Req :
    (Started(r) /\ LacksPair(r)) =>
      /\ calls[r].nPre = 0
      /\ calls[r].nPost = 0
      /\ req[r].pc \in {"lower", "done", "dead"}
      /\ req[r].pc = "lower" => calls[r].nLower = 1
      /\ req[r].pc = "dead" =>
           /\ proc = "panic"
           /\ req[r].op \in FileOps
           /\ handles[req[r].fh].file = NoFile
           /\ calls[r].nLower = 0
      /\ Returned(r) =>
           /\ calls[r].nLower = 1
           /\ calls[r].lowerArgs = req[r].args
           /\ calls[r].lowerOn =
                IF req[r].op \in FsOps THEN <<"fs">>
                ELSE handles[req[r].fh].file
           /\ req[r].ret.res = req[r].lower.res
           /\ req[r].ret.bytesOK = req[r].lower.bytesOK
           /\ req[r].ret.n = req[r].lower.n
           /\ req[r].ret.code = req[r].lower.code
           /\ IF req[r].op \in {"fs.Open", "fs.Create"}
              THEN /\ req[r].ret.file \in Handle
                   /\ handles[req[r].ret.file].file = req[r].lower.file
              ELSE req[r].ret.file = 0

\* a write on a hook that has other pairs but not the write pair returns the
\* byte count of the lower write
PassthroughReached ==
  \E r \in Req :
    /\ Returned(r)
    /\ req[r].op = "f.Write"
    /\ req[r].hook # NoHook
    /\ LacksPair(r)
    /\ Len(req[r].args.data) = 1
    /\ req[r].ret.n = 1
    /\ req[r].ret.code = "OK"

FatalContractCheck ==
  \A r \in Req :
    (req[r].op \in {"fs.Mkdir", "fs.Rmdir", "fs.Open", "fs.OpenDir"}
       /\ req[r].prehooked) =>
      /\ calls[r].nLower = 0
      /\ calls[r].nPost = 0
      /\ IF req[r].prehookErr = "nil"
         THEN /\ req[r].pc = "dead"
              /\ proc = "fatal"
              /\ req[r].ret = NoRet
         ELSE /\ Returned(r)
              /\ req[r].ret.code = "EIO"
              /\ req[r].ret.res = <<>>
              /\ req[r].ret.file = 0

FatalWitness ==
  \E r \in Req :
    /\ req[r].op = "fs.OpenDir"
    /\ req[r].prehooked
    /\ req[r].prehookErr = "nil"
    /\ req[r].pc = "dead"
    /\ proc = "fatal"

LifecycleDegrade ==
  /\ mount.initErr # "nil" => fsHook = NoHook
  /\ \A r \in Req :
       (Started(r) /\ req[r].late
          /\ (req[r].op \in FsOps \/ handles[req[r].fh].late)) =>
         /\ calls[r].nPre = 0
         /\ calls[r].nPost = 0
         /\ Returned(r) => (calls[r].nLower = 1 /\ SameAsLower(r))

\* C6, the part that holds: the same, but for the hookFile a failed Open or
\* Create returns around the nil file of the lower call.
LifecycleDegradeUpToNilFile ==
  /\ mount.initErr # "nil" => fsHook = NoHook
  /\ \A r \in Req :
       (Started(r) /\ req[r].late
          /\ (req[r].op \in FsOps \/ handles[req[r].fh].late)) =>
         /\ calls[r].nPre = 0
         /\ calls[r].nPost = 0
         /\ Returned(r) =>
              /\ calls[r].nLower = 1
              /\ req[r].ret.res = req[r].lower.res
              /\ req[r].ret.n = req[r].lower.n
              /\ req[r].ret.code = req[r].lower.code

\* a read, after the failure, on a file opened after the failure
LifecycleDegradeReached ==
  \E r \in Req :
    /\ Returned(r)
    /\ req[r].late
    /\ req[r].op = "f.Read"
    /\ handles[req[r].fh].late
    /\ req[r].ret.res = <<"A">>
    /\ req[r].ret.code = "OK"

\* C7 (release exactly once): a Release request calls the Release of the
\* lower file exactly once, whatever PreRelease and PostRelease return and
\* whether or not the hook has the pair: never twice, and once it is past
\* its Pre hook the call has been made.
ReleaseOnce ==
  \A r \in Req :
    req[r].op = "f.Release" =>
      /\ calls[r].nLower <= 1
      /\ req[r].pc \in {"lower", "post", "done", "dead"} => calls[r].nLower = 1

\* C7, the part that holds: the same, but for the Release of a hookFile
\* around a nil file, which ends in the panic of a method call on nil.
ReleaseOnceUpToNilFile ==
  \A r \in Req :
    req[r].op = "f.Release" =>
      /\ calls[r].nLower <= 1
      /\ req[r].pc \in {"post", "done"} => calls[r].nLower = 1
      /\ req[r].pc = "dead" => handles[req[r].fh].file = NoFile

ReleaseOnceReached ==
  \E r \in Req :
    /\ Returned(r)
    /\ req[r].op = "f.Release"
    /\ req[r].prehooked
    /\ req[r].posthooked
    /\ calls[r].nLower = 1

\* C8 (handle snapshot): no step changes the hook reference of a hookFile,
\* and a request on a hookFile dispatches on that reference, also after the
\* hook reference of the HookFs has become nil.
HookKept ==
  \A k \in Handle :
    (handles[k].state # "free" /\ handles'[k].state # "free") =>
      handles'[k].hook = handles[k].hook

DispatchCaptured ==
  \A r \in Req :
    (Started(r) /\ req[r].op \in FileOps) =>
      /\ req[r].hook = handles[req[r].fh].hook
      /\ (calls[r].nPre = 1) =
           (/\ req[r].hook # NoHook
            /\ PairOf[req[r].op] \in HookKinds[req[r].hook].pairs)

HandleSnapshot == []DispatchCaptured /\ [][HookKept]_vars

\* a request started after the failed Init, on a file opened before it,
\* is inside its Pre hook
HandleSnapshotWitness ==
  \E r \in Req :
    /\ req[r].op \in FileOps
    /\ req[r].late
    /\ fsHook = NoHook
    /\ ~handles[req[r].fh].late
    /\ handles[req[r].fh].hook # NoHook
    /\ req[r].pc = "pre"
    /\ calls[r].nPre = 1

\* C9 (read short-circuit): when PreRead returns hooked = true the read
\* returns the bytes and ToStatus of the error PreRead returned, and the
\* lower read is not called.
ReadShortCircuit ==
  \A r \in Req :
    (req[r].op = "f.Read" /\ req[r].prehooked) =>
      /\ Returned(r)
      /\ req[r].ret.res = req[r].prehookBuf
      /\ req[r].ret.bytesOK
      /\ req[r].ret.code = (IF req[r].prehookErr = "nil" THEN "OK" ELSE "EIO")
      /\ calls[r].nLower = 0
      /\ calls[r].nPost = 0

ReadShortCircuitWitness ==
  \E r \in Req :
    /\ Returned(r)
    /\ req[r].op = "f.Read"
    /\ req[r].args.size = 1
    /\ req[r].prehooked
    /\ req[r].prehookBuf = <<"A">>
    /\ req[r].prehookErr = "nil"
    /\ req[r].ret.res = <<"A">>
    /\ req[r].ret.code = "OK"
    /\ calls[r].nLower = 0

\* C10 (write short-circuit): when PreWrite returns hooked = true the write
\* reports 0 bytes written whatever the data, with ToStatus of the error
\* PreWrite returned, and the lower write is not called.
WriteShortCircuit ==
  \A r \in Req :
    (req[r].op = "f.Write" /\ req[r].prehooked) =>
      /\ Returned(r)
      /\ req[r].ret.n = 0
      /\ req[r].ret.code = (IF req[r].prehookErr = "nil" THEN "OK" ELSE "EIO")
      /\ calls[r].nLower = 0
      /\ calls[r].nPost = 0

WriteShortCircuitWitness ==
  \E r \in Req :
    /\ Returned(r)
    /\ req[r].op = "f.Write"
    /\ Len(req[r].args.data) = 1
    /\ req[r].prehooked
    /\ req[r].prehookErr = "nil"
    /\ req[r].ret.n = 0
    /\ req[r].ret.code = "OK"

\* C11 (read Post hook): PostRead is called with the bytes and the status
\* the lower read of the same request returned; when it returns
\* hooked = true the read returns its bytes, of whatever length, with
\* ToStatus of its error, and otherwise what the lower read returned; the
\* request never ends in Fatal or a panic once PostRead has been called.
ReadPostHook ==
  \A r \in Req :
    (req[r].op = "f.Read" /\ calls[r].nPost > 0) =>
      /\ calls[r].nLower = 1
      /\ calls[r].postBuf = req[r].lower.res
      /\ calls[r].postCode = req[r].lower.code
      /\ req[r].pc \in {"post", "done"}
      /\ Returned(r) =>
           IF req[r].posthooked
           THEN /\ req[r].ret.res = req[r].posthookBuf
                /\ req[r].ret.bytesOK
                /\ req[r].ret.code =
                     (IF req[r].posthookErr = "nil" THEN "OK" ELSE "EIO")
           ELSE /\ req[r].ret.res = req[r].lower.res
                /\ req[r].ret.code = req[r].lower.code

\* a one-byte lower read replaced by a buffer of another length, no bytes
ReadPostHookWitness ==
  \E r \in Req :
    /\ Returned(r)
    /\ req[r].op = "f.Read"
    /\ req[r].posthooked
    /\ calls[r].postBuf = req[r].lower.res
    /\ Len(req[r].lower.res) = 1
    /\ req[r].posthookBuf = <<>>
    /\ req[r].ret.res = <<>>
    /\ req[r].ret.code = "OK"

WrapperOnlyOnSuccess ==
  \A r \in Req :
    (/\ req[r].op \in {"fs.Open", "fs.Create"}
     /\ req[r].pc \in {"post", "done"}
     /\ calls[r].nLower = 1
     /\ req[r].lower.code # "OK") =>
      /\ req[r].hFile = 0
      /\ \A k \in Handle : handles[k].file = NoFile => handles[k] = NoHandle
      /\ Returned(r) => req[r].ret.file = 0

\* C13, the case that works: a Create whose lower call succeeded returns a
\* hookFile around the file the lower call returned.
WrapperOnSuccessReached ==
  \E r \in Req :
    /\ Returned(r)
    /\ req[r].op = "fs.Create"
    /\ req[r].lower.code = "OK"
    /\ req[r].ret.file \in Handle
    /\ handles[req[r].ret.file].file = <<"file", req[r].args.name>>
    /\ req[r].ret.code = "OK"

\* C14 (Open/Create return the hookFile): an Open or Create that called the
\* lower filesystem returns a hookFile made by this request around the file
\* and the path of the lower call, whether its Post hook returned
\* hooked = true or false; only the status depends on that.
WrapperAlwaysReturned ==
  \A r \in Req :
    (req[r].op \in {"fs.Open", "fs.Create"} /\ Returned(r)
       /\ calls[r].nLower = 1) =>
      /\ req[r].ret.file \in Handle
      /\ req[r].ret.file = req[r].hFile
      /\ handles[req[r].ret.file].state = "new"
      /\ handles[req[r].ret.file].file = req[r].lower.file
      /\ handles[req[r].ret.file].name = req[r].args.name
      /\ req[r].ret.res = <<>>
      /\ req[r].ret.code =
           IF req[r].posthooked
           THEN (IF req[r].posthookErr = "nil" THEN "OK" ELSE "EIO")
           ELSE req[r].lower.code

\* an Open whose lower call succeeded and whose Post hook replaced the
\* status by an error still returns the hookFile around the lower file
WrapperAlwaysReturnedWitness ==
  \E r \in Req :
    /\ Returned(r)
    /\ req[r].op = "fs.Open"
    /\ req[r].posthooked
    /\ req[r].lower.code = "OK"
    /\ req[r].ret.code = "EIO"
    /\ req[r].ret.file \in Handle
    /\ handles[req[r].ret.file].file = <<"file", req[r].args.name>>

\* C15 (Post hook input): for every operation but Release and StatFs, of
\* HookFs and of hookFile, the Post hook is called with the status the
\* lower call of the same request returned.
PostGetsLowerStatus ==
  \A r \in Req :
    (calls[r].nPost > 0 /\ req[r].op \notin {"f.Release", "fs.StatFs"}) =>
      /\ calls[r].nLower = 1
      /\ calls[r].postCode = req[r].lower.code

\* C15, a case that works: PostTruncate of HookFs is given the status of a
\* failed lower Truncate
PostGetsLowerStatusReached ==
  \E r \in Req :
    /\ req[r].op = "fs.Truncate"
    /\ req[r].pc = "post"
    /\ calls[r].nPost = 1
    /\ req[r].lower.code = "ENOENT"
    /\ calls[r].postCode = "ENOENT"

\* C16 (StatFs): when PreStatFs returns hooked = true StatFs returns nil
\* and the lower StatFs is not called; otherwise it returns what the lower
\* StatFs returned, whatever PostStatFs returns.
StatFsResult ==
  \A r \in Req :
    req[r].op = "fs.StatFs" =>
      /\ req[r].prehooked =>
           /\ Returned(r)
           /\ req[r].ret = NoRet
           /\ calls[r].nLower = 0
           /\ calls[r].nPost = 0
      /\ (Returned(r) /\ ~req[r].prehooked) =>
           /\ calls[r].nLower = 1
           /\ req[r].ret.res = req[r].lower.res
           /\ req[r].ret.code = "none"
           /\ req[r].hookEnabled => calls[r].nPost = 1

\* PostStatFs returned hooked = true and an error; the lower result is
\* returned all the same
StatFsResultWitness ==
  \E r \in Req :
    /\ Returned(r)
    /\ req[r].op = "fs.StatFs"
    /\ req[r].posthooked
    /\ req[r].posthookErr = "errno:EIO"
    /\ req[r].lower.res = <<"fs.StatFs", req[r].args.name>>
    /\ req[r].ret.res = req[r].lower.res

\* C17 (capability independence): a request is intercepted exactly when the
\* hook reference it read has both methods of its own operation's pair,
\* whatever other pairs the hook has; an intercepted request calls the Pre
\* hook, any other request calls no hook method, in particular where the
\* hook has the Pre method alone.
CapabilityIndependence ==
  \A r \in Req :
    Started(r) =>
      /\ req[r].hookEnabled =
           (/\ req[r].hook # NoHook
            /\ PairOf[req[r].op] \in HookKinds[req[r].hook].pairs)
      /\ calls[r].nPre = (IF req[r].hookEnabled THEN 1 ELSE 0)
      /\ ~req[r].hookEnabled => calls[r].nPost = 0
      /\ (/\ req[r].hook # NoHook
          /\ PairOf[req[r].op] \in HookKinds[req[r].hook].preOnly
          /\ PairOf[req[r].op] \notin HookKinds[req[r].hook].pairs) =>
           calls[r].nPre = 0 /\ calls[r].nPost = 0

\* on a hookFile whose hook has the read pair and only PreWrite, a Write
\* has gone to the lower file without a hook call
CapabilityIndependenceWitness ==
  \E r \in Req :
    /\ Returned(r)
    /\ req[r].op = "f.Write"
    /\ req[r].hook # NoHook
    /\ "HookOnRead" \in HookKinds[req[r].hook].pairs
    /\ "HookOnWrite" \in HookKinds[req[r].hook].preOnly
    /\ calls[r].nPre = 0
    /\ calls[r].nLower = 1
    /\ calls[r].nPost = 0

\* C18 (hook errors on short-circuit): on every operation that returns a
\* status, a Pre hook that returns hooked = true with an error makes the
\* request return ToStatus of that error at once; the result beside it is
\* the Pre hook's bytes for Read and nothing for every other operation, no
\* attributes, names, target or file.
ShortCircuitStatus ==
  \A r \in Req :
    (/\ req[r].prehooked
     /\ req[r].prehookErr # "nil"
     /\ req[r].op \notin {"f.Release", "fs.StatFs"}) =>
      /\ Returned(r)
      /\ req[r].ret.code = "EIO"
      /\ req[r].ret.res =
           (IF req[r].op = "f.Read" THEN req[r].prehookBuf ELSE <<>>)
      /\ req[r].ret.n = 0
      /\ req[r].ret.file = 0
      /\ calls[r].nLower = 0

\* a Readlink short-circuited with an error returns no target and EIO
ShortCircuitStatusWitness ==
  \E r \in Req :
    /\ Returned(r)
    /\ req[r].op = "fs.Readlink"
    /\ req[r].prehooked
    /\ req[r].prehookErr = "errno:EIO"
    /\ req[r].ret.res = <<>>
    /\ req[r].ret.code = "EIO"

\* the request has come to its end: it returned, or the process died in it
Ended(r) == req[r].pc \in {"done", "dead"}

\* C19 (protocol order and call counts): no request calls the Pre hook, the
\* lower filesystem or the Post hook more than once, the lower call comes
\* after the Pre call and the Post call after the lower call; a request on a
\* hook that has the pair, not short-circuited, has made each of the three
\* calls exactly once when it ends.
ProtocolOrder ==
  \A r \in Req :
    /\ calls[r].nPre <= 1 /\ calls[r].nLower <= 1 /\ calls[r].nPost <= 1
    /\ (req[r].hookEnabled /\ calls[r].nLower > 0) =>
         calls[r].nPre = 1 /\ req[r].pc # "pre"
    /\ calls[r].nPost > 0 =>
         calls[r].nPre = 1 /\ calls[r].nLower = 1 /\ req[r].pc \in {"post", "done"}
    /\ (Ended(r) /\ req[r].hookEnabled /\ ~ShortCircuits(req[r])) =>
         calls[r].nPre = 1 /\ calls[r].nLower = 1 /\ calls[r].nPost = 1

\* C19, the part that holds: the same for the requests that return; a
\* request that ends in a panic has skipped the calls left, which happens
\* where the hookFile has no lower file and where a Read cannot get the
\* bytes out of the lower ReadResult.
ProtocolOrderOfReturned ==
  \A r \in Req :
    /\ calls[r].nPre <= 1 /\ calls[r].nLower <= 1 /\ calls[r].nPost <= 1
    /\ (req[r].hookEnabled /\ calls[r].nLower > 0) =>
         calls[r].nPre = 1 /\ req[r].pc # "pre"
    /\ calls[r].nPost > 0 =>
         calls[r].nPre = 1 /\ calls[r].nLower = 1 /\ req[r].pc \in {"post", "done"}
    /\ (Returned(r) /\ req[r].hookEnabled /\ ~ShortCircuits(req[r])) =>
         calls[r].nPre = 1 /\ calls[r].nLower = 1 /\ calls[r].nPost = 1
    /\ (req[r].pc = "dead" /\ req[r].hookEnabled /\ ~ShortCircuits(req[r])) =>
         /\ proc = "panic"
         /\ req[r].op \in FileOps
         /\ calls[r].nPost = 0
         /\ \/ calls[r].nLower = 0 /\ handles[req[r].fh].file = NoFile
            \/ calls[r].nLower = 1 /\ ReadPanics(req[r])

\* a Rename that went through Pre, lower and Post, once each
ProtocolOrderReached ==
  \E r \in Req :
    /\ Returned(r)
    /\ req[r].op = "fs.Rename"
    /\ ~req[r].prehooked
    /\ calls[r].nPre = 1 /\ calls[r].nLower = 1 /\ calls[r].nPost = 1

\* C20 (no replacement): when the Post hook returns hooked = false the
\* request returns exactly what the lower call returned, result and status,
\* whatever error the Post hook returned with it.
NoReplacePassThrough ==
  \A r \in Req :
    (Returned(r) /\ calls[r].nPost = 1 /\ ~req[r].posthooked) =>
      SameAsLower(r)

\* C20, the part that holds: the same, but for the hookFile a failed Open or
\* Create returns around the nil file of the lower call.
NoReplaceUpToNilFile ==
  \A r \in Req :
    (Returned(r) /\ calls[r].nPost = 1 /\ ~req[r].posthooked) =>
      /\ req[r].ret.res = req[r].lower.res
      /\ req[r].ret.bytesOK = req[r].lower.bytesOK
      /\ req[r].ret.n = req[r].lower.n
      /\ req[r].ret.code = req[r].lower.code
      /\ IF req[r].op \in {"fs.Open", "fs.Create"}
         THEN /\ req[r].ret.file \in Handle
              /\ handles[req[r].ret.file].file = req[r].lower.file
         ELSE req[r].ret.file = 0

\* a Write whose Post hook returned hooked = false with an error returns
\* the byte count and the status of the lower write
NoReplaceReached ==
  \E r \in Req :
    /\ Returned(r)
    /\ req[r].op = "f.Write"
    /\ calls[r].nPost = 1
    /\ ~req[r].posthooked
    /\ req[r].posthookErr = "errno:EIO"
    /\ req[r].lower.n = 1
    /\ req[r].ret.n = 1
    /\ req[r].ret.code = "OK"

\* C21 (lower errors reach the Post hook): a request on a hook that has the
\* pair, not short-circuited, calls the Post hook once its lower call has
\* returned, whether that succeeded or failed; a failure status of the
\* lower call is what the request returns unless the Post hook returned
\* hooked = true.
LowerErrorsReachPost ==
  \A r \in Req :
    /\ (/\ req[r].hookEnabled /\ ~ShortCircuits(req[r])
        /\ (Ended(r) \/ req[r].pc = "post")) =>
         calls[r].nLower = 1 /\ calls[r].nPost = 1
    /\ (/\ Returned(r) /\ calls[r].nLower = 1
        /\ req[r].lower.code \notin {"OK", "none"}
        /\ ~Replaces(req[r])) =>
         req[r].ret.code = req[r].lower.code

\* C21, the part that holds: the same for the requests that get as far as
\* the Post call or return; a request that ends in a panic does not, on a
\* hookFile without a lower file and in a Read that cannot get the bytes
\* out of the lower ReadResult.
LowerErrorsReachPostUpToPanic ==
  \A r \in Req :
    /\ (/\ req[r].hookEnabled /\ ~ShortCircuits(req[r])
        /\ req[r].pc \in {"post", "done"}) =>
         calls[r].nLower = 1 /\ calls[r].nPost = 1
    /\ (/\ req[r].hookEnabled /\ ~ShortCircuits(req[r])
        /\ req[r].pc = "dead") =>
         /\ proc = "panic"
         /\ calls[r].nPost = 0
         /\ \/ handles[req[r].fh].file = NoFile
            \/ ReadPanics(req[r])
    /\ (/\ Returned(r) /\ calls[r].nLower = 1
        /\ req[r].lower.code \notin {"OK", "none"}
        /\ ~Replaces(req[r])) =>
         req[r].ret.code = req[r].lower.code

\* an Unlink that failed below: PostUnlink got the failure, did not replace
\* it, and the failure is returned
LowerErrorsReachPostReached ==
  \E r \in Req :
    /\ Returned(r)
    /\ req[r].op = "fs.Unlink"
    /\ req[r].lower.code = "ENOENT"
    /\ calls[r].nPost = 1
    /\ calls[r].postCode = "ENOENT"
    /\ ~req[r].posthooked
    /\ req[r].ret.code = "ENOENT"

\* a step that writes HookFs.hook is the return of a failed Init inside
\* OnMount, on a hook that has Init, and it writes nil over a hook
HookWrite ==
  fsHook' # fsHook =>
    /\ mount.pc = "init"
    /\ mount'.pc = "mounted"
    /\ mount'.initErr # "nil"
    /\ mount.nInit = 1
    /\ InitEnabled(fsHook)
    /\ fsHook' = NoHook

\* C22 (permanent, narrow disablement): HookFs.hook changes only in OnMount,
\* only from a hook to nil, only when the hook has Init and Init returned an
\* error; otherwise it stays as NewHookFs set it, and once nil it stays nil.
NarrowDisablement ==
  /\ [][HookWrite]_vars
  /\ [][fsHook = NoHook => fsHook' = NoHook]_vars
  /\ []((mount.initErr = "nil") \/ (fsHook = NoHook))

\* the hook was dropped by a failed Init, and the filesystem has been
\* unmounted since
NarrowDisablementWitness ==
  /\ fsHook = NoHook
  /\ mount.nInit = 1
  /\ mount.initErr # "nil"
  /\ mount.pc = "unmounted"

\* C23 (one read of the hook reference): the hook reference in the hookFile
\* an Open or Create makes is the one that request read when it started and
\* dispatched its Pre and Post hooks on, also when OnMount drops the hook
\* of the HookFs while the request runs.
SingleHookRead ==
  \A r \in Req :
    (req[r].op \in {"fs.Open", "fs.Create"} /\ req[r].hFile \in Handle) =>
      handles[req[r].hFile].hook = req[r].hook

\* C23, the case that works: an Open that ran with no OnMount beside it
\* returns a hookFile with the hook the Open itself was dispatched on
SingleHookReadReached ==
  \E r \in Req :
    /\ Returned(r)
    /\ req[r].op = "fs.Open"
    /\ req[r].hook # NoHook
    /\ calls[r].nPost = 1
    /\ req[r].ret.file \in Handle
    /\ handles[req[r].ret.file].hook = req[r].hook

\* C24 (pairing survives disablement): a request whose Pre hook was called
\* and did not short-circuit has its Post hook called exactly once, with the
\* context that Pre hook returned, by the time it ends, whatever OnMount
\* does to the hook reference of the HookFs meanwhile.
PairingSurvives ==
  \A r \in Req :
    (calls[r].nPre = 1 /\ req[r].pc # "pre" /\ ~ShortCircuits(req[r])) =>
      /\ calls[r].nPost <= 1
      /\ calls[r].nPost = 1 =>
           calls[r].postCtx = req[r].prehookCtx /\ req[r].prehookCtx \in Ctxs
      /\ req[r].pc \in {"lower", "post", "done"}
      /\ req[r].pc \in {"post", "done"} => calls[r].nPost = 1

\* C24, the part that holds: the same for every operation of HookFs, and
\* for the operations of a hookFile but for those that end in a panic, on
\* a hookFile without a lower file or in a Read that cannot get the bytes
\* out of the lower ReadResult.
PairingSurvivesUpToPanic ==
  \A r \in Req :
    (calls[r].nPre = 1 /\ req[r].pc # "pre" /\ ~ShortCircuits(req[r])) =>
      /\ calls[r].nPost <= 1
      /\ calls[r].nPost = 1 =>
           calls[r].postCtx = req[r].prehookCtx /\ req[r].prehookCtx \in Ctxs
      /\ req[r].op \in FsOps => req[r].pc \in {"lower", "post", "done"}
      /\ req[r].pc \in {"post", "done"} => calls[r].nPost = 1
      /\ req[r].pc = "dead" =>
           /\ proc = "panic"
           /\ handles[req[r].fh].file = NoFile \/ ReadPanics(req[r])

\* a Chmod that started before the failed Init is inside PostChmod, with
\* the context of its PreChmod, and the hook of the HookFs is nil
PairingSurvivesReached ==
  \E r \in Req :
    /\ req[r].op = "fs.Chmod"
    /\ req[r].pc = "post"
    /\ ~req[r].late
    /\ req[r].hook # NoHook
    /\ fsHook = NoHook
    /\ calls[r].nPost = 1
    /\ calls[r].postCtx = req[r].prehookCtx
    /\ req[r].prehookCtx \in Ctxs

\* Every hook call and every call of the lower filesystem returns: a
\* request inside one of them gets out of it.  Nothing is assumed of the
\* transport, which may or may not send a further request.
CallsReturn ==
  \A r \in Req :
    /\ WF_vars(PreReturn(r))
    /\ WF_vars(LowerReturn(r))
    /\ WF_vars(PostReturn(r))

\* MaxReq requests at a time, every call returning
SpecLive == SpecConc /\ CallsReturn

\* request r is inside a Pre hook, the lower filesystem or a Post hook
InCall(r) == req[r].pc \in {"pre", "lower", "post"}

\* a handler makes at most one Pre call, one lower call and one Post call
AtMostOnceEach ==
  \A r \in Req :
    /\ calls[r].nPre <= 1
    /\ calls[r].nLower <= 1
    /\ calls[r].nPost <= 1

\* a handler waits for nothing but the call it is inside: while the process
\* runs, the return of that call is a step request r can take, whatever the
\* other requests are doing
WaitsOnlyForCall ==
  \A r \in Req :
    Running =>
      /\ req[r].pc = "pre" => ENABLED PreReturn(r)
      /\ req[r].pc = "lower" => ENABLED LowerReturn(r)
      /\ req[r].pc = "post" => ENABLED PostReturn(r)

\* C25 (no blocking in the handlers): if every hook call and every lower
\* call returns, every request ends, by a return or with the process, after
\* at most one Pre call, one lower call and one Post call, however the
\* requests interleave; no handler waits for another request.
Termination ==
  /\ [](AtMostOnceEach /\ WaitsOnlyForCall)
  /\ \A r \in Req : InCall(r) ~> (Ended(r) \/ ~Running)

\* a request has returned after one call of each kind while another
\* request is still inside its Pre hook
TerminationWitness ==
  \E r, r2 \in Req :
    /\ Returned(r)
    /\ calls[r].nPre = 1 /\ calls[r].nLower = 1 /\ calls[r].nPost = 1
    /\ r2 # r
    /\ req[r2].pc = "pre"

\* request r is inside a Pre hook or a Post hook
InHook(r) == req[r].pc \in {"pre", "post"}

\* C26 (no serialization of hook calls): while a request is inside a Pre or
\* Post hook and the process runs, another request can start on the same
\* HookFs and on the same hookFile, same operation included, and a request
\* that has started can take each of its own steps; nothing a handler
\* does waits for the request inside the hook.  (Release is the last
\* operation the kernel sends on a file, so nothing starts beside it.)
NoSerialization ==
  \A r, r2 \in Req :
    (r # r2 /\ InHook(r2) /\ Running) =>
      /\ (req[r].pc = "idle" /\ mount.pc # "unmounted") =>
           \A op \in FsOps \ WrapOps, name \in Paths :
             ENABLED EnterFs(r, op, name)
      /\ (req[r].pc = "idle" /\ req[r2].op \in FileOps \ {"f.Release"}) =>
           \A op \in FileOps \ {"f.Release"} :
             \A args \in FileArgs(op, handles[req[r2].fh].name) :
               ENABLED EnterFile(r, op, req[r2].fh, args)
      /\ req[r].pc = "pre" => ENABLED PreReturn(r)
      /\ req[r].pc = "lower" => ENABLED LowerReturn(r)
      /\ req[r].pc = "post" => ENABLED PostReturn(r)

\* two requests are inside the same Pre hook method of the hook of one
\* hookFile at the same time
NoSerializationWitness ==
  \E r, r2 \in Req :
    /\ r # r2
    /\ req[r].op = "f.Flush" /\ req[r2].op = "f.Flush"
    /\ req[r].fh = req[r2].fh
    /\ req[r].pc = "pre" /\ req[r2].pc = "pre"
    /\ calls[r].nPre = 1 /\ calls[r2].nPre = 1

\* two requests are inside the same Post hook method of the hook of the
\* HookFs at the same time
NoSerializationFsWitness ==
  \E r, r2 \in Req :
    /\ r # r2
    /\ req[r].op = "fs.Chmod" /\ req[r2].op = "fs.Chmod"
    /\ req[r].pc = "post" /\ req[r2].pc = "post"

\* the request that ended in log.Fatal: a Mkdir, Rmdir, Open or OpenDir
\* whose Pre hook short-circuited without an error; it called neither the
\* lower filesystem nor its Post hook, and it has returned nothing
FatalRequest(r) ==
  /\ req[r].pc = "dead"
  /\ req[r].op \in FatalOps
  /\ req[r].prehooked /\ req[r].prehookErr = "nil"
  /\ calls[r].nPre = 1 /\ calls[r].nLower = 0 /\ calls[r].nPost = 0
  /\ req[r].ret = NoRet

\* C27 (the fatal path stops everything): once a request has taken the
\* fatal path, that request has returned no status, and nothing happens
\* any more: no request, in flight or new, returns, calls the lower
\* filesystem or calls a hook, and no state changes at all.
FatalStopsAll ==
  /\ []((proc = "fatal") => \E r \in Req : FatalRequest(r))
  /\ [][(proc = "fatal") => UNCHANGED vars]_vars
  /\ [][(proc' = "fatal" /\ proc # "fatal") =>
          \E r \in Req :
            /\ req' = [req EXCEPT ![r] = req'[r]]
            /\ calls' = calls]_vars

\* a request has taken the fatal path while another was inside a call
FatalStopsAllWitness ==
  /\ proc = "fatal"
  /\ \E r, r2 \in Req :
       /\ FatalRequest(r)
       /\ r2 # r
       /\ InCall(r2)

\* the Pre hook of request r has returned hooked = true and no error
ShortCircuitNoError(r) ==
  /\ req[r].pc \notin {"idle", "pre"}
  /\ req[r].prehooked
  /\ req[r].prehookErr = "nil"

\* what a handler returns on a short-circuit without an error: status OK
\* and no result, but the bytes of PreRead for Read
ReturnsOKUnserved(r) ==
  /\ proc # "fatal"
  /\ req[r].pc = "done"
  /\ calls[r].nLower = 0
  /\ calls[r].nPost = 0
  /\ req[r].ret.code = "OK"
  /\ req[r].ret.file = 0
  /\ req[r].ret.n = 0
  /\ req[r].ret.res = IF req[r].op = "f.Read" THEN req[r].prehookBuf ELSE <<>>

StatusOnlyReplacement ==
  \A r \in Req :
    (Returned(r) /\ req[r].posthooked
       /\ req[r].op \in ResultOps \cup WrapOps) =>
      /\ req[r].ret.code = ToStatus(req[r].posthookErr)
      /\ req[r].ret.res = req[r].lower.res
      /\ req[r].op \in WrapOps =>
           /\ req[r].ret.file \in Handle
           /\ handles[req[r].ret.file].file = req[r].lower.file
           /\ handles[req[r].ret.file].name = req[r].args.name

\* GetAttr has returned the attributes of a lower call that succeeded
\* with the error status of PostGetAttr
StatusOnlyReplacementWitness ==
  \E r \in Req :
    /\ Returned(r)
    /\ req[r].op = "fs.GetAttr"
    /\ req[r].posthooked
    /\ req[r].posthookErr = "errno:EIO"
    /\ req[r].lower.code = "OK"
    /\ req[r].ret.res = req[r].lower.res
    /\ req[r].ret.res # <<>>
    /\ req[r].ret.code = "EIO"

\* C30 (replacement makes a success of a failure): when the lower call
\* returned a failure status and the Post hook returns hooked = true and no
\* error, the handler returns status OK; Open and Create return with it a
\* hookFile made around the nil file of the failed lower call.
FabricatedSuccess ==
  \A r \in Req :
    (Returned(r) /\ req[r].posthooked /\ req[r].posthookErr = "nil"
       /\ req[r].lower.code \notin {"OK", "none"}) =>
      /\ req[r].ret.code = "OK"
      /\ req[r].op \in WrapOps =>
           /\ req[r].lower.file = NoFile
           /\ req[r].ret.file \in Handle
           /\ handles[req[r].ret.file].file = NoFile

\* Open has returned OK and a hookFile without a lower file after a lower
\* Open that failed
FabricatedSuccessWitness ==
  \E r \in Req :
    /\ Returned(r)
    /\ req[r].op = "fs.Open"
    /\ req[r].lower.code = "ENOENT"
    /\ req[r].posthooked
    /\ req[r].posthookErr = "nil"
    /\ req[r].ret.code = "OK"
    /\ req[r].ret.file \in Handle
    /\ handles[req[r].ret.file].file = NoFile

\* C31 (a replaced Write reports zero): when the lower Write ran and
\* PostWrite returns hooked = true, Write returns 0 bytes written with the
\* status made of the error of PostWrite, whatever the lower Write wrote;
\* the count of the lower Write is returned only when the hookFile's hook
\* has no Write pair or PostWrite returned hooked = false.
WriteReplacedZero ==
  \A r \in Req :
    (Returned(r) /\ req[r].op = "f.Write") =>
      /\ (calls[r].nPost = 1 /\ req[r].posthooked) =>
           /\ calls[r].nLower = 1
           /\ req[r].ret.n = 0
           /\ req[r].ret.code = ToStatus(req[r].posthookErr)
      /\ req[r].ret.n > 0 =>
           /\ req[r].ret.n = req[r].lower.n
           /\ req[r].ret.code = req[r].lower.code
           /\ \/ ~req[r].hookEnabled
              \/ calls[r].nPost = 1 /\ ~req[r].posthooked

\* the lower Write wrote a byte, PostWrite replaced, Write has returned 0
WriteReplacedZeroWitness ==
  \E r \in Req :
    /\ Returned(r)
    /\ req[r].op = "f.Write"
    /\ req[r].lower.n > 0
    /\ req[r].lower.code = "OK"
    /\ calls[r].nPost = 1
    /\ req[r].posthooked
    /\ req[r].ret.n = 0

\* the count of the lower Write has reached the caller past a PostWrite
\* that returned hooked = false
WriteCountKeptWitness ==
  \E r \in Req :
    /\ Returned(r)
    /\ req[r].op = "f.Write"
    /\ calls[r].nPost = 1
    /\ ~req[r].posthooked
    /\ req[r].ret.n > 0

\* the calls a Release on a hook with the Release pair has made so far are
\* in order: PreRelease once; the lower Release once, after PreRelease has
\* returned; PostRelease once, after the lower Release has returned, with
\* the context PreRelease returned
ReleaseCallsInOrder(r) ==
  /\ calls[r].nPre = 1
  /\ req[r].pc = "pre" => calls[r].nLower = 0 /\ calls[r].nPost = 0
  /\ req[r].pc = "lower" => calls[r].nLower = 1 /\ calls[r].nPost = 0
  /\ req[r].pc \in {"post", "done"} =>
       /\ calls[r].nLower = 1
       /\ calls[r].nPost = 1
       /\ calls[r].postCtx = req[r].prehookCtx
       /\ req[r].prehookCtx \in Ctxs

\* C32 (order of the Release hooks): on a hook that has the Release pair,
\* every Release calls PreRelease once, then the Release of the lower
\* file, then PostRelease once with the context PreRelease returned, also
\* when PreRelease returned hooked = true; no Release ends before that.
ReleaseOrder ==
  \A r \in Req :
    (req[r].op = "f.Release" /\ req[r].hookEnabled) =>
      /\ ReleaseCallsInOrder(r)
      /\ req[r].pc \in {"pre", "lower", "post", "done"}

\* C32, the part that holds: the same, but for the Release of a hookFile
\* around a nil file, which ends after PreRelease in the panic of a method
\* call on nil, the lower Release and PostRelease not called.
ReleaseOrderUpToNilFile ==
  \A r \in Req :
    (req[r].op = "f.Release" /\ req[r].hookEnabled) =>
      /\ ReleaseCallsInOrder(r)
      /\ req[r].pc = "dead" =>
           /\ handles[req[r].fh].file = NoFile
           /\ calls[r].nLower = 0
           /\ calls[r].nPost = 0

\* a Release whose PreRelease returned hooked = true has gone through the
\* lower Release and PostRelease and has returned
ReleaseOrderReached ==
  \E r \in Req :
    /\ Returned(r)
    /\ req[r].op = "f.Release"
    /\ req[r].hookEnabled
    /\ req[r].prehooked
    /\ calls[r].nPre = 1 /\ calls[r].nLower = 1 /\ calls[r].nPost = 1
    /\ calls[r].postCtx = req[r].prehookCtx

\* a hookFile is made by an Open or Create whose lower call returns, with
\* the path of that request and the file that lower call returned
PathCaptured ==
  \A k \in Handle :
    (handles[k].state = "free" /\ handles'[k].state # "free") =>
      \E r \in Req :
        /\ req[r].op \in WrapOps
        /\ req[r].pc = "lower"
        /\ req'[r].hFile = k
        /\ handles'[k].name = req[r].args.name
        /\ handles'[k].file = req'[r].lower.file

\* no step changes the path or the lower file of a hookFile
PathKept ==
  \A k \in Handle :
    (handles[k].state # "free" /\ handles'[k].state # "free") =>
      /\ handles'[k].name = handles[k].name
      /\ handles'[k].file = handles[k].file

\* the Pre hook of an operation of a hookFile gets the path of the hookFile
PreGetsCapturedPath ==
  \A r \in Req :
    (req[r].op \in FileOps /\ calls[r].nPre = 1) =>
      /\ handles[req[r].fh].state # "free"
      /\ calls[r].preArgs.name = handles[req[r].fh].name
      /\ handles[req[r].fh].name \in Paths

MountCallsInOrder ==
  /\ mount.pc = "new" => mount.nLowerMount = 0 /\ mount.nInit = 0
  /\ mount.pc = "lower" => mount.nLowerMount = 1 /\ mount.nInit = 0
  /\ mount.pc = "init" => mount.nLowerMount = 1 /\ mount.nInit = 1
  /\ mount.pc \in {"mounted", "unmounted"} =>
       /\ mount.nLowerMount = 1
       /\ mount.nInit <= 1
       /\ mount.nInit = 0 => ~InitEnabled(fsHook)
  /\ mount.initErr # "nil" => mount.nInit = 1 /\ mount.nLowerMount = 1
  /\ mount.nLowerUnmount = IF mount.pc = "unmounted" THEN 1 ELSE 0

\* OnMount returns from an Init that returned, failed or not, with the
\* lower filesystem still mounted and the process running
InitEndsOnMount ==
  (mount.pc = "init" /\ mount'.pc # "init") =>
    /\ mount'.pc = "mounted"
    /\ mount'.nLowerMount = 1
    /\ mount'.nLowerUnmount = 0
    /\ proc' = proc

\* OnUnmount calls the OnUnmount of the lower filesystem and nothing else
UnmountOnlyLower ==
  (mount'.pc = "unmounted" /\ mount.pc # "unmounted") =>
    /\ mount.pc = "mounted"
    /\ mount'.nLowerUnmount = mount.nLowerUnmount + 1
    /\ mount'.nInit = mount.nInit
    /\ mount'.nLowerMount = mount.nLowerMount
    /\ UNCHANGED <<fsHook, handles, req, calls, proc>>

\* C34 (mount lifecycle): OnMount calls the OnMount of the lower filesystem
\* exactly once and before Init; an Init that fails neither skips nor
\* undoes that mount, and OnMount returns all the same; OnUnmount calls
\* the OnUnmount of the lower filesystem and no hook method.
MountLifecycle ==
  /\ []MountCallsInOrder
  /\ []((mount.pc = "init" /\ Running) =>
          \A err \in HookErrs : ENABLED InitReturn(err))
  /\ [][InitEndsOnMount /\ UnmountOnlyLower]_vars

\* the filesystem has been unmounted after an OnMount whose Init failed:
\* one lower OnMount, one Init, one lower OnUnmount
MountLifecycleWitness ==
  /\ mount.pc = "unmounted"
  /\ mount.initErr # "nil"
  /\ fsHook = NoHook
  /\ mount.nLowerMount = 1
  /\ mount.nInit = 1
  /\ mount.nLowerUnmount = 1

\* the lower Read of request r has returned a ReadResult whose bytes cannot
\* be got out of it
BytesFail(r) ==
  /\ req[r].op = "f.Read"
  /\ calls[r].nLower = 1
  /\ req[r].pc # "lower"
  /\ ~req[r].lower.bytesOK

\* C35 (Read and the bytes of the lower result): on a hook with the Read
\* pair, a Read that was not short-circuited and cannot get the bytes out
\* of the ReadResult of the lower Read panics, PostRead not called and
\* nothing returned; on a hook without the pair Read does not ask for the
\* bytes and returns the ReadResult and status of the lower Read as they
\* are.
ReadMaterialization ==
  \A r \in Req :
    /\ (BytesFail(r) /\ req[r].hookEnabled) =>
         /\ req[r].pc = "dead"
         /\ proc = "panic"
         /\ calls[r].nPost = 0
         /\ req[r].ret = NoRet
    /\ (BytesFail(r) /\ ~req[r].hookEnabled) =>
         /\ req[r].pc = "done"
         /\ proc = "running"
    /\ (req[r].op = "f.Read" /\ ~req[r].hookEnabled /\ Returned(r)) =>
         /\ calls[r].nPre = 0 /\ calls[r].nPost = 0
         /\ req[r].ret.res = req[r].lower.res
         /\ req[r].ret.bytesOK = req[r].lower.bytesOK
         /\ req[r].ret.code = req[r].lower.code

\* a Read on a hook with the pair has ended in the panic: the lower Read
\* returned, its bytes could not be got, PostRead was not called
ReadMaterializationWitness ==
  \E r \in Req :
    /\ BytesFail(r)
    /\ req[r].hookEnabled
    /\ calls[r].nPre = 1
    /\ req[r].pc = "dead"
    /\ proc = "panic"
    /\ calls[r].nPost = 0

\* a Read on a hook without the pair has returned a ReadResult whose bytes
\* cannot be got, as the lower Read returned it
ReadAsIsWitness ==
  \E r \in Req :
    /\ BytesFail(r)
    /\ ~req[r].hookEnabled
    /\ Returned(r)
    /\ ~req[r].ret.bytesOK

====
